---------------------------- MODULE Spec2Model ----------------------------
(***************************************************************************)
(* The genetic-algorithm route optimizer of thinks5.py: create_route,      *)
(* select, crossover, mutate and the generational loop run_ga, over a      *)
(* distance matrix and a pinned start/end index.                           *)
(*                                                                         *)
(* Python lists are TLA+ sequences; At/SetAt/Slice take the source's       *)
(* 0-based positions, so loop ranges and indices read as in the source.    *)
(* Random draws (shuffle, sample, cut points, mutation decisions) are      *)
(* inputs chosen with \E.  An uncaught Python exception moves pc to        *)
(* "error" and records the exception's type in err.                        *)
(***************************************************************************)
EXTENDS Integers, Sequences, FiniteSets, TLC

VARIABLES
    start_location_name,  \* line 25; places are numbered from 1
    end_location_name,    \* line 26
    locations,        \* lines 87-95: the places that were geocoded, in order
    N,                \* number of resolved locations (line 101)
    start_index,      \* line 103
    end_index,        \* line 104
    distance_matrix,  \* lines 121-125
    pc,               \* position of the script: "input", "geocode",
                      \* "geocoded", "init", "evolving", "done", "reported",
                      \* "error"; "ops" in the operator harness
    pop,              \* run_ga: current population
    new_pop,          \* run_ga: population under construction
    best,             \* run_ga: best-so-far
    best_slot,        \* the slot of pop whose list object best refers to,
                      \* 0 when that list is not in the current population
    gen,              \* run_ga: generations completed
    err,              \* type of the uncaught exception, "" when none
    best_route,       \* line 203
    total,            \* the total distance printed at line 208
    best_log,         \* history: fitness of best after init and each generation
    min_seen,         \* history: least fitness over every population so far
    op,               \* operator harness: last operation applied
    op_in,            \* operator harness: its chromosome arguments
    op_out            \* operator harness: its result

vars == <<start_location_name, end_location_name, locations,
          N, start_index, end_index, distance_matrix, pc, pop, new_pop, best,
          best_slot, gen, err, best_route, total, best_log, min_seen, op, op_in, op_out>>

cfgVars == <<start_location_name, end_location_name, locations,
             N, start_index, end_index, distance_matrix>>
runVars == <<pop, new_pop, best, best_slot, gen, best_route, total, best_log, min_seen>>
opVars == <<op, op_in, op_out>>

---------------------------------------------------------------------------
(* Bounds of the model.  POP_SIZE, GENERATIONS and SELECT_SAMPLE are the   *)
(* source's tuning constants (60, 200 and 5 at lines 51-54) scaled down.   *)

\* the number of resolved locations N ranges over 2..MaxN
MaxN == 4
\* run_ga is explored with start_index in 0..MaxStart (the operator harness
\* draws every start index)
MaxStart == 0
POP_SIZE == 2
GENERATIONS == 2
SELECT_SAMPLE == 2
\* location_names (lines 12-20, seven places) scaled down to 1..MaxNames
MaxNames == 3
\* the crossover harness draws N from 4..MaxCrossN
MaxCrossN == 5
\* the selection harness draws populations of SelPopSize chromosomes, more
\* than SELECT_SAMPLE, so that a tournament sees only part of the population
SelPopSize == 3

\* the cost osrm_distance returns for a failed lookup
SENTINEL == 999999

\* Python's None, the unfilled placeholder of crossover's child
None == -1

---------------------------------------------------------------------------
(* Python list helpers, 0-based                                            *)

Range(l) == {l[k] : k \in 1..Len(l)}

Min(a, b) == IF a < b THEN a ELSE b

\* l[i]
At(l, i) == l[i + 1]

\* l[i] = v
SetAt(l, i, v) == [l EXCEPT ![i + 1] = v]

\* l[a:b], 0 <= a; b is clamped to len(l) as Python does
Slice(l, a, b) == SubSeq(l, a + 1, Min(b, Len(l)))

\* l[1:-1]
Interior(l) == SubSeq(l, 2, Len(l) - 1)

\* [v] * n
RECURSIVE Repeat(_, _)
Repeat(v, n) == IF n <= 0 THEN <<>> ELSE Append(Repeat(v, n - 1), v)

\* list.remove(v): drops the first occurrence of v
RECURSIVE Remove(_, _)
Remove(l, v) ==
    IF l = <<>> THEN <<>>
    ELSE IF Head(l) = v THEN Tail(l)
    ELSE <<Head(l)>> \o Remove(Tail(l), v)

\* list(range(n))
RECURSIVE RangeList(_)
RangeList(n) == IF n <= 0 THEN <<>> ELSE Append(RangeList(n - 1), n - 1)

---------------------------------------------------------------------------
(* Configuration                                                           *)

round_trip == start_index = end_index

\* The matrices the model draws from: diagonal 0 (line 121), off-diagonal
\* entries what osrm_distance returned (line 125).
LineMatrix(n) == [i \in 0..n-1 |-> [j \in 0..n-1 |->
                    IF i < j THEN j - i ELSE i - j]]
RingMatrix(n) == [i \in 0..n-1 |-> [j \in 0..n-1 |-> (j - i + n) % n]]
UnreachableMatrix(n) == [i \in 0..n-1 |-> [j \in 0..n-1 |->
                    IF i = j THEN 0 ELSE SENTINEL]]

Matrices(n) == {LineMatrix(n), RingMatrix(n), UnreachableMatrix(n)}

---------------------------------------------------------------------------
(* route_distance, lines 131-135                                           *)

\* route_distance with every leg read in the opposite direction
RECURSIVE route_distance_backward(_)
route_distance_backward(route) ==
    IF Len(route) < 2 THEN 0
    ELSE distance_matrix[route[2]][route[1]]
            + route_distance_backward(Tail(route))

RECURSIVE route_distance(_)
route_distance(route) ==
    IF Len(route) < 2 THEN 0
    ELSE distance_matrix[route[1]][route[2]] + route_distance(Tail(route))

\* distance_matrix[None] raises TypeError
RouteDistanceRaises(route) ==
    Len(route) >= 2 /\ None \in Range(route)

---------------------------------------------------------------------------
(* create_route, lines 140-149.  perm is the outcome of random.shuffle: a  *)
(* permutation of the positions of the list being shuffled.                *)

Shuffle(l, perm) == [k \in 1..Len(l) |-> l[perm[k]]]

\* create_route without line 144
CreateBaseKeepsEnd == Remove(RangeList(N), start_index)

CreateBase ==
    LET r1 == Remove(RangeList(N), start_index)
    IN  IF ~round_trip THEN Remove(r1, end_index) ELSE r1

create_route(perm) ==
    IF round_trip
    THEN <<start_index>> \o Shuffle(CreateBase, perm) \o <<start_index>>
    ELSE <<start_index>> \o Shuffle(CreateBase, perm) \o <<end_index>>

ShuffleOutcomes == Permutations(1..Len(CreateBase))

---------------------------------------------------------------------------
(* select, lines 151-153.  sample is the outcome of random.sample: a list  *)
(* of SELECT_SAMPLE distinct slots of pop; min returns the first member of *)
(* the sample with the least route_distance.                               *)

SampleOutcomes(p, k) ==
    {s \in [1..k -> 1..Len(p)] : \A a, b \in 1..k : a # b => s[a] # s[b]}

RECURSIVE MinBy(_, _)
MinBy(l, k) ==
    IF k = 1 THEN l[1]
    ELSE LET m == MinBy(l, k - 1)
         IN  IF route_distance(l[k]) < route_distance(m) THEN l[k] ELSE m

\* min(l, key=route_distance)
MinRoute(l) == MinBy(l, Len(l))

\* a tournament won by the first slot drawn
select_first(p, sample) == p[sample[1]]

\* the slot of the list object min(sample, key=route_distance) returns:
\* the first of sample[1..k] with the least route_distance
RECURSIVE MinSlotBy(_, _, _)
MinSlotBy(p, sample, k) ==
    IF k = 1 THEN sample[1]
    ELSE LET m == MinSlotBy(p, sample, k - 1)
         IN  IF route_distance(p[sample[k]]) < route_distance(p[m])
             THEN sample[k] ELSE m

select_slot(p, sample) == MinSlotBy(p, sample, SELECT_SAMPLE)

\* the slot of the list object min(p, key=route_distance) returns
FirstMinSlot(p) == MinSlotBy(p, [k \in 1..Len(p) |-> k], Len(p))

select(p, sample) == MinRoute([k \in 1..SELECT_SAMPLE |-> p[sample[k]]])

---------------------------------------------------------------------------
(* crossover, lines 155-174.  cut is the sorted outcome of                 *)
(* random.sample(range(1, N-1), 2).                                        *)

CutOutcomes == {c \in (1..N-2) \X (1..N-2) : c[1] < c[2]}

\* random.sample raises ValueError when range(1, N-1) has fewer than 2 items
CrossoverRaises == N - 2 < 2

RECURSIVE FillLoop(_, _, _)
FillLoop(child, fill, i) ==
    IF i >= N - 1 THEN child
    ELSE IF At(child, i) = None /\ fill # <<>>
         THEN FillLoop(SetAt(child, i, Head(fill)), Tail(fill), i + 1)
         ELSE FillLoop(child, fill, i + 1)

\* crossover whose donor segment is parent 1's own positions start..end-1
crossover_same_positions(p1, p2, cut) ==
    LET child0 == SetAt(SetAt(Repeat(None, N), 0, start_index),
                        N - 1, IF round_trip THEN start_index ELSE end_index)
        mid2 == Interior(p2)
        start == cut[1]
        end == cut[2]
        child1 == Slice(child0, 0, start) \o Slice(p1, start, end)
                     \o Slice(child0, end, Len(child0))
        fill == SelectSeq(mid2, LAMBDA x : x \notin Range(child1))
    IN  FillLoop(child1, fill, 1)

\* The list object crossover returns is the one created at line 156;
\* mid1 and mid2 are slices, i.e. copies, and fill is a new list, so the
\* child shares storage with no member of the population.  ChildStorage is
\* the set of population slots whose list object is the child's: what
\* mutate writes in place also shows in those slots.
ChildStorageInParent1(slot1, slot2) == {slot1}

ChildStorageInParent2(slot1, slot2) == {slot2}

ChildStorage(slot1, slot2) == {}

crossover(p1, p2, cut) ==
    LET child0 == SetAt(SetAt(Repeat(None, N), 0, start_index),
                        N - 1, IF round_trip THEN start_index ELSE end_index)
        mid1 == Interior(p1)
        mid2 == Interior(p2)
        slice_len == Min(Len(mid1), N - 2)
        start == cut[1]
        end == Min(cut[2], start + slice_len)
        child1 == Slice(child0, 0, start) \o Slice(mid1, 0, end - start)
                     \o Slice(child0, end, Len(child0))
        fill == SelectSeq(mid2, LAMBDA x : x \notin Range(child1))
    IN  FillLoop(child1, fill, 1)

---------------------------------------------------------------------------
(* mutate, lines 176-182.  draws[i] is 0 when random.random() is not below *)
(* MUTATION_RATE at position i, and otherwise the j that randint returns.  *)

\* line 177 with the last position never locked
lock_last_never == IF round_trip THEN 0 ELSE 0

lock_last == IF round_trip THEN 0 ELSE 1

MutateDraws ==
    [1..(N - lock_last - 1) -> 0..(N - lock_last - 1)]

RECURSIVE MutateLoop(_, _, _)
MutateLoop(route, draws, i) ==
    IF i >= N - lock_last THEN route
    ELSE IF draws[i] # 0
         THEN LET j == draws[i]
              IN  MutateLoop(SetAt(SetAt(route, i, At(route, j)),
                                   j, At(route, i)), draws, i + 1)
         ELSE MutateLoop(route, draws, i + 1)

\* line 181 as a plain assignment route[i] = route[j]
RECURSIVE MutateLoopOverwrite(_, _, _)
MutateLoopOverwrite(route, draws, i) ==
    IF i >= N - lock_last THEN route
    ELSE IF draws[i] # 0
         THEN MutateLoopOverwrite(SetAt(route, i, At(route, draws[i])),
                                  draws, i + 1)
         ELSE MutateLoopOverwrite(route, draws, i + 1)

mutate_overwrite(route, draws) == MutateLoopOverwrite(route, draws, 1)

mutate(route, draws) == MutateLoop(route, draws, 1)

\* every chromosome mutate can turn route into
MutateOutcomes(route) == {mutate(route, draws) : draws \in MutateDraws}

---------------------------------------------------------------------------
(* The configuration after the pre-run checks, lines 97-104                *)

ConfigInit(maxStart) ==
    /\ N \in 2..MaxN
    /\ start_index \in 0..Min(maxStart, N - 1)
    /\ end_index \in 0..N-1
    /\ distance_matrix \in Matrices(N)
    /\ locations = Tail(RangeList(N + 1))
    /\ start_location_name = start_index + 1
    /\ end_location_name = end_index + 1

RunIdle ==
    /\ pop = <<>>
    /\ new_pop = <<>>
    /\ best = <<>>
    /\ best_slot = 0
    /\ gen = 0
    /\ best_route = <<>>
    /\ total = 0
    /\ best_log = <<>>
    /\ min_seen = 0

OpIdle ==
    /\ op = "none"
    /\ op_in = <<>>
    /\ op_out = <<>>

Init ==
    /\ ConfigInit(MaxStart)
    /\ pc = "init"
    /\ err = ""
    /\ RunIdle
    /\ OpIdle

---------------------------------------------------------------------------
(* run_ga, lines 184-197                                                   *)

\* the least route_distance over a population
MinFitness(p) ==
    CHOOSE f \in {route_distance(p[k]) : k \in 1..Len(p)} :
        \A k \in 1..Len(p) : f <= route_distance(p[k])

\* lines 195-196 without the comparison
UpdateBestAlways(cb, b) == cb

\* lines 195-196 never taken
UpdateBestNever(cb, b) == b

\* lines 195-196 with a tie replacing the older best
UpdateBestOnTie(cb, b) ==
    IF route_distance(cb) <= route_distance(b) THEN cb ELSE b

\* lines 195-196
UpdateBest(cb, b) ==
    IF route_distance(cb) < route_distance(b) THEN cb ELSE b

\* lines 185-186
Initialize ==
    /\ pc = "init"
    /\ \E perms \in [1..POP_SIZE -> ShuffleOutcomes] :
          LET p == [k \in 1..POP_SIZE |-> create_route(perms[k])]
          IN  /\ pop' = p
              /\ best' = MinRoute(p)
              /\ best_slot' = FirstMinSlot(p)
              /\ best_log' = <<route_distance(MinRoute(p))>>
              /\ min_seen' = MinFitness(p)
    /\ new_pop' = <<>>
    /\ gen' = 0
    /\ pc' = IF GENERATIONS > 0 THEN "evolving" ELSE "done"
    /\ UNCHANGED <<cfgVars, err, best_route, total, opVars>>

\* lines 189-192, one pass of the inner loop
MakeChild ==
    /\ pc = "evolving"
    /\ Len(new_pop) < POP_SIZE
    /\ SELECT_SAMPLE <= Len(pop)
    /\ ~CrossoverRaises
    /\ \E s1, s2 \in SampleOutcomes(pop, SELECT_SAMPLE) :
       \E cut \in CutOutcomes :
       \E c \in MutateOutcomes(crossover(select(pop, s1), select(pop, s2), cut)) :
          LET shared == ChildStorage(select_slot(pop, s1),
                                     select_slot(pop, s2))
          IN  /\ new_pop' = Append(new_pop, c)
              /\ pop' = IF shared = {} THEN pop
                        ELSE [k \in 1..Len(pop) |->
                                 IF k \in shared THEN c ELSE pop[k]]
              /\ best' = IF best_slot \in shared THEN c ELSE best
    /\ UNCHANGED <<cfgVars, pc, best_slot, gen, err, best_route, total,
                   best_log, min_seen, opVars>>

\* line 190 raising ValueError out of random.sample, in select or crossover;
\* the exception leaves run_ga and ends the script, its locals are gone
MakeChildRaises ==
    /\ pc = "evolving"
    /\ Len(new_pop) < POP_SIZE
    /\ SELECT_SAMPLE > Len(pop) \/ CrossoverRaises
    /\ pc' = "error"
    /\ err' = "ValueError"
    /\ pop' = <<>>
    /\ new_pop' = <<>>
    /\ best' = <<>>
    /\ best_slot' = 0
    /\ UNCHANGED <<cfgVars, gen, best_route, total, best_log, min_seen, opVars>>

\* lines 193-196, and the loop test of line 187
EndGeneration ==
    /\ pc = "evolving"
    /\ Len(new_pop) = POP_SIZE
    /\ \A k \in 1..Len(new_pop) : ~RouteDistanceRaises(new_pop[k])
    /\ pop' = new_pop
    /\ new_pop' = <<>>
    /\ best' = UpdateBest(MinRoute(new_pop), best)
    /\ best_slot' = IF UpdateBest(MinRoute(new_pop), best) # best
                    THEN FirstMinSlot(new_pop) ELSE 0
    /\ best_log' = Append(best_log,
                      route_distance(UpdateBest(MinRoute(new_pop), best)))
    /\ min_seen' = Min(min_seen, MinFitness(new_pop))
    /\ gen' = gen + 1
    /\ pc' = IF gen + 1 < GENERATIONS THEN "evolving" ELSE "done"
    /\ UNCHANGED <<cfgVars, err, best_route, total, opVars>>

\* line 194 raising TypeError: route_distance reads distance_matrix[None];
\* the exception leaves run_ga and ends the script, its locals are gone
EndGenerationRaises ==
    /\ pc = "evolving"
    /\ Len(new_pop) = POP_SIZE
    /\ \E k \in 1..Len(new_pop) : RouteDistanceRaises(new_pop[k])
    /\ pc' = "error"
    /\ err' = "TypeError"
    /\ pop' = <<>>
    /\ new_pop' = <<>>
    /\ best' = <<>>
    /\ best_slot' = 0
    /\ UNCHANGED <<cfgVars, gen, best_route, total, best_log, min_seen, opVars>>

\* line 197 returning best into best_route (line 203), and lines 205-208;
\* pop and new_pop are locals of run_ga and are gone once it has returned
Report ==
    /\ pc = "done"
    /\ best_route' = best
    /\ total' = route_distance(best)
    /\ pop' = <<>>
    /\ new_pop' = <<>>
    /\ best_slot' = 0
    /\ pc' = "reported"
    /\ UNCHANGED <<cfgVars, best, gen, err, best_log, min_seen, opVars>>

Next ==
    \/ Initialize
    \/ MakeChild
    \/ MakeChildRaises
    \/ EndGeneration
    \/ EndGenerationRaises
    \/ Report

Spec == Init /\ [][Next]_vars

---------------------------------------------------------------------------
(* The script before run_ga, lines 25-126: the two names are read and      *)
(* validated, the places are geocoded, the resolved places are counted and *)
(* the start and end indices looked up.  ScriptSpec follows the script     *)
(* from the input to run_ga's first population; Spec explores run_ga       *)
(* itself from every configuration that passes these checks.               *)

\* location_names, lines 12-20
location_names == Tail(RangeList(MaxNames + 1))

\* what the user typed when it is not one of location_names
OtherName == MaxNames + 1

\* len(locations) < 2, line 97
TooFewLocationsNever == Len(locations) < 0

TooFewLocations == Len(locations) < 2

\* next(...) at lines 103-104 finds no entry with the name
LookupRaises ==
    \/ start_location_name \notin Range(locations)
    \/ end_location_name \notin Range(locations)

\* next(i for i, (name, _) in enumerate(city_list) if name == wanted)
IndexOf(l, wanted) == CHOOSE i \in 0..Len(l)-1 : At(l, i) = wanted

ScriptInit ==
    /\ start_location_name \in Range(location_names) \cup {OtherName}
    /\ end_location_name \in Range(location_names) \cup {OtherName}
    /\ locations = <<>>
    /\ N = 0
    /\ start_index = None
    /\ end_index = None
    /\ distance_matrix = <<>>
    /\ pc = "input"
    /\ err = ""
    /\ RunIdle
    /\ OpIdle

\* lines 28-31 pass
ValidateNames ==
    /\ pc = "input"
    /\ start_location_name \in Range(location_names)
    /\ end_location_name \in Range(location_names)
    /\ pc' = "geocode"
    /\ UNCHANGED <<cfgVars, err, runVars, opVars>>

\* lines 28-31 raise
ValidateNamesRaises ==
    /\ pc = "input"
    /\ \/ start_location_name \notin Range(location_names)
       \/ end_location_name \notin Range(location_names)
    /\ pc' = "error"
    /\ err' = "ValueError"
    /\ UNCHANGED <<cfgVars, runVars, opVars>>

\* lines 87-95: each place is geocoded or not found
Geocode ==
    /\ pc = "geocode"
    /\ \E found \in SUBSET Range(location_names) :
          locations' = SelectSeq(location_names, LAMBDA x : x \in found)
    /\ pc' = "geocoded"
    /\ UNCHANGED <<start_location_name, end_location_name, N, start_index,
                   end_index, distance_matrix, err, runVars, opVars>>

\* lines 97-98
TooFewLocationsExit ==
    /\ pc = "geocoded"
    /\ TooFewLocations
    /\ pc' = "error"
    /\ err' = "SystemExit"
    /\ UNCHANGED <<cfgVars, runVars, opVars>>

\* lines 100-104, a start or end name that was not geocoded
LookupFails ==
    /\ pc = "geocoded"
    /\ ~TooFewLocations
    /\ LookupRaises
    /\ pc' = "error"
    /\ err' = "StopIteration"
    /\ UNCHANGED <<cfgVars, runVars, opVars>>

\* lines 100-126
Configure ==
    /\ pc = "geocoded"
    /\ ~TooFewLocations
    /\ ~LookupRaises
    /\ N' = Len(locations)
    /\ start_index' = IndexOf(locations, start_location_name)
    /\ end_index' = IndexOf(locations, end_location_name)
    /\ distance_matrix' \in Matrices(Len(locations))
    /\ pc' = "init"
    /\ UNCHANGED <<start_location_name, end_location_name, locations, err,
                   runVars, opVars>>

ScriptNext ==
    \/ ValidateNames
    \/ ValidateNamesRaises
    \/ Geocode
    \/ TooFewLocationsExit
    \/ LookupFails
    \/ Configure
    \/ Initialize

ScriptSpec == ScriptInit /\ [][ScriptNext]_vars

---------------------------------------------------------------------------
(* Vocabulary of the claims: the data model's feasible chromosome          *)

\* length of a chromosome of the configured mode (data model)
ChromLen == IF round_trip THEN N + 1 ELSE N

\* the non-endpoint index set
InteriorSet == (0..N-1) \ {start_index, end_index}

\* feasibility of the data model: pinned endpoints, interior a permutation
\* of the non-endpoint indices, mode-dependent length
Feasible(c) ==
    /\ Len(c) = ChromLen
    /\ c[1] = start_index
    /\ c[Len(c)] = (IF round_trip THEN start_index ELSE end_index)
    /\ Range(Interior(c)) = InteriorSet
    /\ Len(Interior(c)) = Cardinality(InteriorSet)

FeasibleChromosomes == {c \in [1..ChromLen -> 0..N-1] : Feasible(c)}

\* run_ga has built its first population and has not failed
Running == pc \in {"evolving", "done", "reported"}

---------------------------------------------------------------------------
(* Operator harness: create_route, crossover and mutate, each applied once *)
(* to every feasible chromosome of every configuration up to MaxN.         *)

OpInit ==
    /\ ConfigInit(MaxN)
    /\ pc = "ops"
    /\ err = ""
    /\ RunIdle
    /\ OpIdle

OpCreateRoute ==
    /\ pc = "ops"
    /\ op = "none"
    /\ \E perm \in ShuffleOutcomes :
          /\ op' = "create_route"
          /\ op_in' = <<>>
          /\ op_out' = create_route(perm)
    /\ UNCHANGED <<cfgVars, pc, err, runVars>>

OpCrossover ==
    /\ pc = "ops"
    /\ op = "none"
    /\ ~CrossoverRaises
    /\ \E p1, p2 \in FeasibleChromosomes :
       \E cut \in CutOutcomes :
          /\ op' = "crossover"
          /\ op_in' = <<p1, p2>>
          /\ op_out' = crossover(p1, p2, cut)
    /\ UNCHANGED <<cfgVars, pc, err, runVars>>

OpCrossoverRaises ==
    /\ pc = "ops"
    /\ op = "none"
    /\ CrossoverRaises
    /\ \E p1, p2 \in FeasibleChromosomes :
          /\ op' = "crossover"
          /\ op_in' = <<p1, p2>>
          /\ op_out' = <<>>
    /\ pc' = "error"
    /\ err' = "ValueError"
    /\ UNCHANGED <<cfgVars, runVars>>

OpMutate ==
    /\ pc = "ops"
    /\ op = "none"
    /\ \E r \in FeasibleChromosomes :
       \E draws \in MutateDraws :
          /\ op' = "mutate"
          /\ op_in' = <<r>>
          /\ op_out' = mutate(r, draws)
    /\ UNCHANGED <<cfgVars, pc, err, runVars>>

OpRouteDistance ==
    /\ pc = "ops"
    /\ op = "none"
    /\ \E r \in FeasibleChromosomes :
          /\ op' = "route_distance"
          /\ op_in' = <<r>>
          /\ op_out' = route_distance(r)
    /\ UNCHANGED <<cfgVars, pc, err, runVars>>

\* lines 190-191 on parents taken from a first population: the child
\* crossover returns is handed to mutate; the mutation draws are recorded
OpMutateChild ==
    /\ pc = "ops"
    /\ op = "none"
    /\ ~CrossoverRaises
    /\ \E c \in {crossover(p1, p2, cut) :
                    p1 \in FeasibleChromosomes, p2 \in FeasibleChromosomes,
                    cut \in CutOutcomes} :
       \E draws \in MutateDraws :
          /\ op' = "mutate_child"
          /\ op_in' = <<c, draws>>
          /\ op_out' = mutate(c, draws)
    /\ UNCHANGED <<cfgVars, pc, err, runVars>>

OpNext ==
    \/ OpRouteDistance
    \/ OpMutateChild
    \/ OpCreateRoute
    \/ OpCrossover
    \/ OpCrossoverRaises
    \/ OpMutate

OpSpec == OpInit /\ [][OpNext]_vars

---------------------------------------------------------------------------
(* Crossover harness: crossover applied once to two feasible parents, with *)
(* the cut positions recorded, for N up to MaxCrossN.                      *)

\* the orderings of a set of indices
Orderings(S) ==
    {m \in [1..Cardinality(S) -> S] :
        \A a, b \in 1..Cardinality(S) : a # b => m[a] # m[b]}

\* the feasible chromosomes, built from the orderings of the interior set
FeasibleParents ==
    {<<start_index>> \o m
        \o <<IF round_trip THEN start_index ELSE end_index>> :
            m \in Orderings(InteriorSet)}

CrossInit ==
    /\ N \in 4..MaxCrossN
    /\ start_index \in 0..Min(MaxStart, N - 1)
    /\ end_index \in 0..N-1
    /\ distance_matrix = RingMatrix(N)
    /\ locations = Tail(RangeList(N + 1))
    /\ start_location_name = start_index + 1
    /\ end_location_name = end_index + 1
    /\ pc = "ops"
    /\ err = ""
    /\ RunIdle
    /\ OpIdle

CrossCrossover ==
    /\ pc = "ops"
    /\ op = "none"
    /\ \E p1, p2 \in FeasibleParents :
       \E cut \in CutOutcomes :
          /\ op' = "crossover"
          /\ op_in' = <<p1, p2, cut>>
          /\ op_out' = crossover(p1, p2, cut)
    /\ UNCHANGED <<cfgVars, pc, err, runVars>>

CrossNext == CrossCrossover

CrossSpec == CrossInit /\ [][CrossNext]_vars

---------------------------------------------------------------------------
(* Selection harness: a first population of SelPopSize chromosomes is      *)
(* built as at line 185, then the two tournaments of line 190 are run on   *)
(* it, with both samples recorded.                                         *)

SelInit ==
    /\ ConfigInit(MaxStart)
    /\ pc = "ops"
    /\ err = ""
    /\ RunIdle
    /\ OpIdle

SelPopulate ==
    /\ pc = "ops"
    /\ pop = <<>>
    /\ pop' \in [1..SelPopSize ->
                    {create_route(perm) : perm \in ShuffleOutcomes}]
    /\ UNCHANGED <<cfgVars, pc, err, new_pop, best, best_slot, gen,
                   best_route, total, best_log, min_seen, opVars>>

SelSelect ==
    /\ pc = "ops"
    /\ pop # <<>>
    /\ op = "none"
    /\ \E s1, s2 \in SampleOutcomes(pop, SELECT_SAMPLE) :
          /\ op' = "select"
          /\ op_in' = <<s1, s2>>
          /\ op_out' = <<select(pop, s1), select(pop, s2)>>
    /\ UNCHANGED <<cfgVars, pc, err, runVars>>

SelNext ==
    \/ SelPopulate
    \/ SelSelect

SelSpec == SelInit /\ [][SelNext]_vars

---------------------------------------------------------------------------
(* Claims                                                                  *)

\* C1: in both modes, every chromosome of every population of run_ga
\* (made by create_route, or by crossover followed by mutate) is feasible.
C1_EveryChromosomeFeasible ==
    \A c \in Range(pop) \cup Range(new_pop) : Feasible(c)

\* C2: the route run_ga returns begins with the start index, ends with the
\* end index (the start index in a round trip), contains every location
\* index 0..N-1, and the reported total is its route_distance.
C2_ReturnedRouteComplete ==
    pc = "reported" =>
        /\ best_route[1] = start_index
        /\ best_route[Len(best_route)] =
              (IF round_trip THEN start_index ELSE end_index)
        /\ Range(best_route) = 0..N-1
        /\ total = route_distance(best_route)

\* C3: the child crossover returns for two feasible parents is feasible:
\* the parents' length, pinned endpoints, interior a permutation of the
\* non-endpoint indices.
C3_CrossoverClosure ==
    (op = "crossover" /\ err = "") =>
        /\ Len(op_out) = Len(op_in[1])
        /\ Feasible(op_out)

\* C4: in a round trip every chromosome of every generation's population
\* has length N+1 with the start index first, last and nowhere else; in an
\* open path every chromosome has length N.
C4_ModeLength ==
    \A c \in Range(pop) :
        IF round_trip
        THEN /\ Len(c) = N + 1
             /\ \A k \in 1..Len(c) :
                   (c[k] = start_index) <=> (k = 1 \/ k = Len(c))
        ELSE Len(c) = N

\* C5: the fitness of best-so-far after generation g is at most its fitness
\* after generation g-1, for every generation g.
C5_BestNeverWorsens ==
    /\ \A g \in 1..(Len(best_log) - 1) : best_log[g + 1] <= best_log[g]
    /\ Running => /\ Len(best_log) = gen + 1
                  /\ best_log[gen + 1] = route_distance(best)

C5_Witness ==
    /\ pc = "done"
    /\ \E g \in 1..(Len(best_log) - 1) : best_log[g + 1] < best_log[g]

\* C6: every run makes exactly GENERATIONS generation transitions and then
\* returns best-so-far; none stops earlier, none fails.
C6_RunsToDone ==
    /\ pc # "error"
    /\ pc \in {"done", "reported"} => gen = GENERATIONS

\* C7: in an open path every chromosome of every population, and
\* best-so-far, begins with the start index and ends with the end index.
C7_OpenPathPinned ==
    (~round_trip /\ Running) =>
        \A c \in Range(pop) \cup Range(new_pop) \cup {best} :
            /\ c[1] = start_index
            /\ c[Len(c)] = end_index

C7_Witness ==
    /\ ~round_trip
    /\ N = MaxN
    /\ gen >= 1
    /\ new_pop # <<>>
    /\ \E k \in 1..Len(pop) : pop[k] # best

\* C8: mutate turns a feasible chromosome of either mode into a feasible
\* chromosome of the same length with the same first and last element.
C8_MutationClosure ==
    op = "mutate" =>
        /\ Feasible(op_in[1])
        /\ Feasible(op_out)
        /\ Len(op_out) = Len(op_in[1])
        /\ op_out[1] = op_in[1][1]
        /\ op_out[Len(op_out)] = op_in[1][Len(op_in[1])]

C8_Witness ==
    /\ op = "mutate"
    /\ round_trip
    /\ N = MaxN
    /\ Len(op_in[1]) = N + 1
    /\ op_out[Len(op_out) - 1] # op_in[1][Len(op_out) - 1]

\* C9: after initialization and after every generation the fitness of
\* best-so-far is the least fitness over every population seen so far,
\* whether or not best-so-far is still in the current population.
C9_BestIsLeastObserved ==
    Running => route_distance(best) = min_seen

C9_Witness ==
    /\ pc = "done"
    /\ \A k \in 1..Len(pop) : pop[k] # best
    /\ \A k \in 1..Len(pop) : route_distance(pop[k]) > min_seen
    /\ best_log[1] > min_seen

\* C10: create_route returns the start index, then a permutation of the
\* non-endpoint indices, then the end index (open path, length N) or the
\* start index again (round trip, length N+1).
C10_CreateRouteFeasible ==
    op = "create_route" =>
        /\ Len(op_out) = (IF round_trip THEN N + 1 ELSE N)
        /\ op_out[1] = start_index
        /\ op_out[Len(op_out)] =
              (IF round_trip THEN start_index ELSE end_index)
        /\ \A x \in (0..N-1) \ {start_index, end_index} :
              Cardinality({k \in 2..(Len(op_out) - 1) : op_out[k] = x}) = 1
        /\ \A k \in 2..(Len(op_out) - 1) :
              op_out[k] \in (0..N-1) \ {start_index, end_index}

C10_Witness ==
    /\ op = "create_route"
    /\ N = MaxN
    /\ ~round_trip
    /\ op_out # <<start_index>> \o CreateBase \o <<end_index>>

\* the legs of chromosome c up to position k, each read from the matrix row
\* of its origin and the column of its destination
RECURSIVE LegSum(_, _)
LegSum(c, k) ==
    IF k = 0 THEN 0
    ELSE LegSum(c, k - 1) + distance_matrix[c[k]][c[k + 1]]

\* C11: route_distance of a chromosome is the sum, over its consecutive
\* pairs, of the matrix entry from the first index of the pair to the
\* second (directed: an asymmetric matrix is respected).
C11_RouteDistanceIsDirectedSum ==
    op = "route_distance" =>
        op_out = LegSum(op_in[1], Len(op_in[1]) - 1)

C11_Witness ==
    /\ op = "route_distance"
    /\ N = MaxN
    /\ \E i, j \in 0..N-1 : distance_matrix[i][j] # distance_matrix[j][i]
    /\ op_out # route_distance_backward(op_in[1])

\* C12: when fewer than 2 locations are resolved, or the start or the end
\* location is not among the resolved ones, the script stops before
\* run_ga: no population, no generation, no route and no total.
C12_MisconfigurationAborts ==
    (pc \notin {"input", "geocode"}
        /\ err # "ValueError"
        /\ (Len(locations) < 2
               \/ start_location_name \notin Range(locations)
               \/ end_location_name \notin Range(locations))) =>
        /\ pc \in {"geocoded", "error"}
        /\ pc = "error" => err \in {"SystemExit", "StopIteration"}
        /\ RunIdle

C12_Witness ==
    /\ pc = "error"
    /\ err = "StopIteration"
    /\ Len(locations) >= 2
    /\ end_location_name \in Range(locations)

\* C13: in either mode, every position of every child crossover returns
\* during run_ga holds a location index: no child that enters a population
\* (and so reaches mutate and route_distance) still has a None.
C13_NoPlaceholderLeft ==
    \A c \in Range(new_pop) \cup Range(pop) :
        \A k \in 1..Len(c) : c[k] # None /\ c[k] \in 0..N-1

\* C14: for every chromosome run_ga hands to mutate, in both modes, no swap
\* has the chromosome's first or last position as its source position i or
\* as its target position j.
C14_SwapsStayInside ==
    op = "mutate_child" =>
        LET c == op_in[1]
            draws == op_in[2]
        IN \A i \in DOMAIN draws :
              draws[i] # 0 =>
                  /\ i \notin {0, Len(c) - 1}
                  /\ draws[i] \notin {0, Len(c) - 1}

\* C15 as stated: for the cut positions start < end, every position p with
\* start <= p < end of the child holds parent 1's element at position p.
C15_DonorAtSamePositions ==
    op = "crossover" =>
        LET p1 == op_in[1]
            cut == op_in[3]
        IN \A p \in cut[1]..(cut[2] - 1) : At(op_out, p) = At(p1, p)

\* C15, amended: for the cut positions start < end, every position p with
\* start <= p < end of the child holds parent 1's element at position
\* p - start + 1: the donor segment is the first end - start elements of
\* parent 1's interior, placed at the child's positions start..end-1.
C15_DonorIsInteriorPrefix ==
    op = "crossover" =>
        LET p1 == op_in[1]
            cut == op_in[3]
        IN \A p \in cut[1]..(cut[2] - 1) :
              At(op_out, p) = At(p1, p - cut[1] + 1)

C15_Witness ==
    /\ op = "crossover"
    /\ op_in[3][1] >= 2
    /\ op_in[3][2] - op_in[3][1] >= 1
    /\ At(op_out, op_in[3][1]) # At(op_in[1], op_in[3][1])
    /\ At(op_out, op_in[3][1]) = At(op_in[1], 1)

\* C16: with feasible parents, the child's interior positions outside the
\* donor segment, read left to right, hold exactly the indices of parent
\* 2's interior that are not in the donor segment, in parent 2's order.
C16_RestFromParent2 ==
    op = "crossover" =>
        LET p2 == op_in[2]
            cut == op_in[3]
            donor == Range(Slice(op_out, cut[1], cut[2]))
            outside == Slice(op_out, 1, cut[1])
                          \o Slice(op_out, cut[2], Len(op_out) - 1)
        IN outside = SelectSeq(Interior(p2), LAMBDA x : x \notin donor)

\* C17: select returns a member of the current population whose fitness is
\* the lowest among a sample of SELECT_SAMPLE distinct slots; the two
\* tournaments run for one child have independent samples, so both may
\* return the same member.
C17_TournamentWinner ==
    op = "select" =>
        \A t \in 1..2 :
            LET sample == op_in[t]
                winner == op_out[t]
            IN /\ Cardinality(Range(sample)) = SELECT_SAMPLE
               /\ Range(sample) \subseteq 1..Len(pop)
               /\ \E k \in 1..SELECT_SAMPLE : winner = pop[sample[k]]
               /\ \A k \in 1..SELECT_SAMPLE :
                     route_distance(winner)
                        <= route_distance(pop[sample[k]])

C17_Witness ==
    /\ op = "select"
    /\ Range(op_in[1]) # Range(op_in[2])
    /\ op_out[1] = op_out[2]
    /\ op_out[1] # pop[op_in[1][1]]
    /\ \E k \in 1..Len(pop) :
          /\ k \notin Range(op_in[1])
          /\ route_distance(pop[k]) # route_distance(op_out[1])

\* C18: while the children of a generation are produced, a child step
\* changes no chromosome of the prior population and not the distance
\* matrix, also when one chromosome is both parents; it only appends its
\* own child and leaves the children made before it as they are, so the
\* outcomes of a child step do not depend on the steps made so far.
C18_ChildStepFrame ==
    [][(pc = "evolving" /\ pc' = "evolving" /\ gen' = gen) =>
          /\ pop' = pop
          /\ distance_matrix' = distance_matrix
          /\ Len(new_pop') = Len(new_pop) + 1
          /\ SubSeq(new_pop', 1, Len(new_pop)) = new_pop]_vars

C18_Witness ==
    /\ pc = "evolving"
    /\ gen >= 1
    /\ Len(new_pop) = POP_SIZE
    /\ SELECT_SAMPLE = Len(pop)
    /\ \A k \in 1..Len(pop) :
          k # FirstMinSlot(pop) =>
              route_distance(pop[k]) > route_distance(pop[FirstMinSlot(pop)])
    /\ \A k \in 1..Len(new_pop) : new_pop[k] \notin Range(pop)

\* C19: the contents of best-so-far change only at a generation boundary,
\* and only to the new population's fittest member when its fitness is
\* strictly lower (a tie keeps the older best); no selection, crossover
\* or mutation step alters the list held as best, although best refers to
\* a member of the population and mutate works in place.
C19_BestChangesOnlyAtBoundary ==
    [][(best # <<>> /\ pc' # "error" /\ best' # best) =>
          /\ gen' = gen + 1
          /\ pop' = new_pop
          /\ best' = MinRoute(pop')
          /\ route_distance(best') < route_distance(best)]_vars

C19_Witness ==
    /\ pc = "evolving"
    /\ gen >= 1
    /\ new_pop # <<>>
    /\ best_slot = 0
    /\ \E k \in 1..Len(pop) :
          /\ pop[k] # best
          /\ route_distance(pop[k]) = route_distance(best)
          /\ route_distance(pop[k]) = MinFitness(pop)

===========================================================================
